---- MODULE Spec2Model ----
(***************************************************************************)
(* Model of src/app.py: a Flask application that keeps, per browser        *)
(* session, the OAuth state of two providers (YouTube, Reddit), two cached *)
(* item lists and the time of the last sync.                               *)
(*                                                                         *)
(* The Flask session is a mapping whose keys may be absent; it is the      *)
(* function `session`, whose DOMAIN is the set of keys present.  Python's  *)
(* None is the string "None" (request parameters never take that value     *)
(* here).  Values stored in the session are opaque tokens: the serialized  *)
(* credentials ("creds"), the API client ("YoutubeResource"), the          *)
(* dictionary reddit.__dict__ ("RedditDict"), flow.__dict__ ("FlowDict").  *)
(* The session is read when a request arrives and written back with the   *)
(* response.  Whether the stored objects survive that write is decided by  *)
(* the session interface and not by app.py: both outcomes are behaviours   *)
(* of the model (keepsObjects).                                            *)
(***************************************************************************)
EXTENDS Integers, Sequences, FiniteSets, TLC

(* ---------------------------------------------------------------- bounds *)

\* time.time() at the first request of the session (seconds)
T0 == 1000
\* the clock is not advanced beyond T0 + MaxElapsed
MaxElapsed == 60
\* amounts of time that pass between two requests
TickSteps == {30, 60}
\* requests that may wait on the network at the same time
MaxPending == 1
\* requests the browser sends in one behaviour
MaxRequests == 5
\* longest saved collection a provider holds when a fetcher is called on its own
MaxSaved == 12

(* ------------------------------------------------------ program constants *)

\* session["sync_interval"] = 60
SyncIntervalDefault == 60
\* maxResults=10 / saved(limit=10)
FetchLimit == 10

(* ------------------------------------------------------- session mapping *)

None == "None"

EmptySession == [k \in {} |-> None]

\* session[k] = v
SetKey(s, k, v) == [x \in (DOMAIN s) \cup {k} |-> IF x = k THEN v ELSE s[x]]

\* session.get(k)
Get(s, k) == IF k \in DOMAIN s THEN s[k] ELSE None

\* Python truth value of a value stored under a credential / handle key
Truthy(v) == v # None

\* if k not in session: session[k] = v
Default(s, k, v) == IF k \in DOMAIN s THEN s ELSE SetKey(s, k, v)

init_session(s) ==
    LET s1 == Default(s, "youtube_credentials", None)
        s2 == Default(s1, "reddit_access_token", None)
        s3 == Default(s2, "youtube_api", None)
        s4 == Default(s3, "reddit", None)
        s5 == Default(s4, "youtube_videos", <<>>)
        s6 == Default(s5, "reddit_posts", <<>>)
        s7 == Default(s6, "last_sync_time", 0)
        s8 == Default(s7, "sync_interval", SyncIntervalDefault)
        s9 == Default(s8, "oauth_state", None)
    IN  Default(s9, "oauth_flow", None)

(* ------------------------------------------------------------- providers *)

\* items of a videos().list response; hasThumb: snippet.thumbnails.default.url exists
V1 == [id |-> "v1", title |-> "T1", hasThumb |-> TRUE, thumb |-> "u1"]
V2 == [id |-> "v2", title |-> "T2", hasThumb |-> FALSE, thumb |-> ""]

\* what request.execute() does: returns a response (ok), raises HttpError,
\* raises a transport error (not an HttpError), or fails on a malformed body
YoutubeBehaviours ==
    { [kind |-> "ok", items |-> <<>>],
      [kind |-> "ok", items |-> <<V1>>],
      [kind |-> "ok", items |-> <<V1, V2>>],
      [kind |-> "http_error", items |-> <<>>],
      [kind |-> "transport_error", items |-> <<>>],
      [kind |-> "malformed", items |-> <<>>] }

\* saved items; hasTitle: hasattr(item, "title") (a submission, not a comment)
P1 == [hasTitle |-> TRUE, title |-> "P1", permalink |-> "/r/a/1", subreddit |-> "a"]
Cm == [hasTitle |-> FALSE, title |-> "", permalink |-> "/r/a/1/c", subreddit |-> "a"]

RedditBehaviours ==
    { [kind |-> "ok", saved |-> <<>>],
      [kind |-> "ok", saved |-> <<Cm, P1>>],
      [kind |-> "error", saved |-> <<>>] }

\* a provider that is not asked anything
YtIdle == [kind |-> "ok", items |-> <<>>]
RdIdle == [kind |-> "ok", saved |-> <<>>]

\* a provider-side failure of the call (HTTP error, transport error,
\* malformed response, missing field)
YoutubeFails(yt) ==
    \/ yt.kind # "ok"
    \/ \E i \in 1..Len(yt.items) : ~yt.items[i].hasThumb

\* a failure inside the discussion fetch: the handle is not a client object
\* (AttributeError) or the provider call fails
RedditFails(reddit, rd) == reddit # "RedditObject" \/ rd.kind # "ok"

(* -------------------------------------------------------------- fetchers *)

VideoRecord(item) ==
    [title |-> item.title,
     url |-> <<"https://www.youtube.com/watch?v=", item.id>>,
     thumbnail |-> item.thumb]

\* try: ... except googleapiclient.errors.HttpError: return []
\* Only HttpError is caught: any other exception leaves the function.
fetch_youtube_saved_videos(youtube_api, yt) ==
    IF yt.kind = "http_error"
    THEN [raised |-> "none", value |-> <<>>]
    ELSE IF yt.kind = "transport_error"
    THEN [raised |-> "TransportError", value |-> <<>>]
    ELSE IF yt.kind = "malformed"
    THEN [raised |-> "ValueError", value |-> <<>>]
    ELSE IF \E i \in 1..Len(yt.items) : ~yt.items[i].hasThumb
    THEN [raised |-> "KeyError", value |-> <<>>]
    ELSE [raised |-> "none",
          value |-> [i \in 1..Len(yt.items) |-> VideoRecord(yt.items[i])]]

PostRecord(item) ==
    [title |-> item.title,
     url |-> <<"https://reddit.com", item.permalink>>,
     subreddit |-> item.subreddit]

RECURSIVE SubmissionsOf(_)
SubmissionsOf(items) ==
    IF items = <<>> THEN <<>>
    ELSE IF Head(items).hasTitle
         THEN <<PostRecord(Head(items))>> \o SubmissionsOf(Tail(items))
         ELSE SubmissionsOf(Tail(items))

\* Take without the limit
TakeAll(items, n) == items

\* saved(limit=n): the first n items of the collection
Take(items, n) == SubSeq(items, 1, IF Len(items) < n THEN Len(items) ELSE n)

\* try: ... except Exception: return []
\* The handle kept in the session is reddit.__dict__, a dict: reddit.user
\* raises AttributeError on it, which the except clause turns into [].
fetch_reddit_saved_posts(reddit, rd) ==
    IF reddit # "RedditObject"
    THEN [raised |-> "none", value |-> <<>>]
    ELSE IF rd.kind # "ok"
    THEN [raised |-> "none", value |-> <<>>]
    ELSE [raised |-> "none", value |-> SubmissionsOf(Take(rd.saved, FetchLimit))]

(* -------------------------------------------------------------- sync gate *)

\* what a request did not do
NoSync ==
    [raised |-> "none", gate |-> "none", gateNow |-> 0, gateLst |-> 0,
     gateInterval |-> 0, fetches |-> <<>>]

\* one call of a fetcher: the provider, whether the provider side failed,
\* the exception that left the fetcher ("none" if it returned) and its result
FetchCall(provider, failed, r) ==
    [provider |-> provider, failed |-> failed, raised |-> r.raised, value |-> r.value]

\* IsStale that never finds the gate stale
IsStaleNever(current_time, last_sync_time, sync_interval) == FALSE

\* IsStale with the interval left out of the comparison
IsStaleAlways(current_time, last_sync_time, sync_interval) ==
    current_time - last_sync_time >= 0

\* the comparison of sync_content
IsStale(current_time, last_sync_time, sync_interval) ==
    current_time - last_sync_time >= sync_interval

\* sync_content(), called at time current_time with the providers behaving
\* as yt and rd.  session["last_sync_time"] and session["sync_interval"] are
\* subscripted: a missing key raises KeyError.
sync_content(s, current_time, yt, rd) ==
    IF "last_sync_time" \notin DOMAIN s \/ "sync_interval" \notin DOMAIN s
    THEN [session |-> s, raised |-> "KeyError", gate |-> "KeyError",
          gateNow |-> current_time, gateLst |-> 0, gateInterval |-> 0,
          fetches |-> <<>>]
    ELSE
    LET seen == [gateNow |-> current_time, gateLst |-> s["last_sync_time"],
                 gateInterval |-> s["sync_interval"]]
    IN
    IF ~IsStale(current_time, s["last_sync_time"], s["sync_interval"])
    THEN [session |-> s, raised |-> "none", gate |-> "fresh",
          gateNow |-> seen.gateNow, gateLst |-> seen.gateLst,
          gateInterval |-> seen.gateInterval, fetches |-> <<>>]
    ELSE
    LET doY == Truthy(Get(s, "youtube_api"))
        ry == fetch_youtube_saved_videos(Get(s, "youtube_api"), yt)
        callY == IF doY THEN <<FetchCall("youtube", YoutubeFails(yt), ry)>> ELSE <<>>
    IN
    IF doY /\ ry.raised # "none"
    THEN [session |-> s, raised |-> ry.raised, gate |-> "stale",
          gateNow |-> seen.gateNow, gateLst |-> seen.gateLst,
          gateInterval |-> seen.gateInterval, fetches |-> callY]
    ELSE
    LET s1 == IF doY THEN SetKey(s, "youtube_videos", ry.value) ELSE s
        doR == Truthy(Get(s1, "reddit"))
        rr == fetch_reddit_saved_posts(Get(s1, "reddit"), rd)
        callR == IF doR
                 THEN <<FetchCall("reddit", RedditFails(Get(s1, "reddit"), rd), rr)>>
                 ELSE <<>>
        s2 == IF doR THEN SetKey(s1, "reddit_posts", rr.value) ELSE s1
    IN  [session |-> SetKey(s2, "last_sync_time", current_time),
         raised |-> "none", gate |-> "stale",
         gateNow |-> seen.gateNow, gateLst |-> seen.gateLst,
         gateInterval |-> seen.gateInterval, fetches |-> callY \o callR]

\* the part of a sync_content result that is observed, without the session
SyncSeen(r) ==
    [raised |-> r.raised, gate |-> r.gate, gateNow |-> r.gateNow,
     gateLst |-> r.gateLst, gateInterval |-> r.gateInterval, fetches |-> r.fetches]

(* ---------------------------------------------------------------- routes *)

\* anti-forgery states flow.authorization_url() may generate, and the values
\* a callback request may carry in its state parameter
States == {"s1", "s2"}

NoArgs == [hasCode |-> FALSE, hasState |-> FALSE, state |-> None]

NoPage == [shown |-> FALSE, youtube_videos |-> <<>>, reddit_posts |-> <<>>]

\* the result of a handler: the session it leaves, the response, the
\* exception that left the handler ("none" if it returned), what its
\* sync_content call did, whether a token exchange was attempted, and what
\* became of the temporary client-secret file ("none": never created,
\* "deleted": unlinked, "left": still on disk when the handler finished)
Result(s, status, body, location, raised, seen, exchanged, page) ==
    [session |-> s, status |-> status, body |-> body, location |-> location,
     raised |-> raised, sync |-> seen, exchanged |-> exchanged, page |-> page,
     tempfile |-> "none"]

\* a handler that created the temporary file and finished with it in state tf
WithTemp(res, tf) == [res EXCEPT !.tempfile = tf]

\* an exception that leaves the handler: Flask answers 500
Raise(s, exc, seen, exchanged) ==
    Result(s, 500, <<"Internal Server Error", "">>, "", exc, seen, exchanged, NoPage)

\* redirect(url_for(endpoint))
Redirect(s, endpoint, seen, exchanged) ==
    Result(s, 302, <<"", "">>, endpoint, "none", seen, exchanged, NoPage)

\* GET /
index(s, t, yt, rd) ==
    LET s0 == init_session(s)
        r == sync_content(s0, t, yt, rd)
    IN  IF r.raised # "none"
        THEN Raise(r.session, r.raised, SyncSeen(r), FALSE)
        ELSE IF ~Truthy(Get(r.session, "youtube_credentials"))
                /\ ~Truthy(Get(r.session, "reddit"))
        THEN Redirect(r.session, "login", SyncSeen(r), FALSE)
        ELSE Result(r.session, 200, <<"content.html", "">>, "", "none",
                    SyncSeen(r), FALSE,
                    [shown |-> TRUE,
                     youtube_videos |-> r.session["youtube_videos"],
                     reddit_posts |-> r.session["reddit_posts"]])

\* GET /login
login(s) ==
    Result(init_session(s), 200, <<"login.html", "">>, "", "none",
           NoSync, FALSE, NoPage)

\* create_temp_client_secret_file(): NamedTemporaryFile(delete=False) creates
\* the file, then the document is written; write is what temp_file.write
\* does ("ok", "fail").  A failing write leaves the function with the file
\* on disk, before the caller has entered its try/finally.
create_temp_client_secret_file(write) ==
    IF write # "ok"
    THEN [raised |-> "WriteError", file |-> "left"]
    ELSE [raised |-> "none", file |-> "created"]

\* GET /youtube-login; state is the value flow.authorization_url() returns,
\* flow is what building the flow and the authorization URL does
youtube_login(s, state, write, flow) ==
    LET f == create_temp_client_secret_file(write) IN
    IF f.raised # "none"
    THEN WithTemp(Raise(s, f.raised, NoSync, FALSE), f.file)
    ELSE IF flow # "ok"
    THEN WithTemp(Raise(s, "FlowError", NoSync, FALSE), "deleted")
    ELSE
    LET s1 == SetKey(s, "oauth_state", state)
        s2 == SetKey(s1, "oauth_flow", "FlowDict")
    IN  WithTemp(Redirect(s2, "authorization_url", NoSync, FALSE), "deleted")

\* GET /reddit-login
reddit_login(s) == Redirect(s, "auth_url", NoSync, FALSE)

\* MissingParameter with "and" for "or"
MissingParameterBoth(args) == ~args.hasCode /\ ~args.hasState

\* the first test of youtube_callback
MissingParameter(args) == ~args.hasCode \/ ~args.hasState

\* StateMismatch without the test for a session that holds no state
StateMismatchStoredOnly(s, args) ==
    Get(s, "oauth_state") # None /\ Get(s, "oauth_state") # args.state

\* the second test of youtube_callback
StateMismatch(s, args) ==
    Get(s, "oauth_state") = None \/ Get(s, "oauth_state") # args.state

\* GET /youtube-callback; write: what writing the temporary file does,
\* flow: what rebuilding the flow does, exchange: what flow.fetch_token does,
\* build: what googleapiclient.discovery.build does (each "ok" or "fail")
youtube_callback(s, t, args, write, flow, exchange, build, yt, rd) ==
    IF MissingParameter(args)
    THEN Result(s, 400, <<"Error: Missing code or state parameter", "">>, "",
                "none", NoSync, FALSE, NoPage)
    ELSE IF StateMismatch(s, args)
    THEN Result(s, 400, <<"Error: OAuth state mismatch", "">>, "",
                "none", NoSync, FALSE, NoPage)
    ELSE
    LET f == create_temp_client_secret_file(write) IN
    IF f.raised # "none"
    THEN WithTemp(Raise(s, f.raised, NoSync, FALSE), f.file)
    ELSE IF flow # "ok"
    THEN WithTemp(Raise(s, "FlowError", NoSync, FALSE), "deleted")
    ELSE IF exchange # "ok"
    THEN WithTemp(Raise(s, "ExchangeError", NoSync, TRUE), "deleted")
    ELSE
    LET s1 == SetKey(s, "youtube_credentials", "creds") IN
    IF build # "ok"
    THEN WithTemp(Raise(s1, "BuildError", NoSync, TRUE), "deleted")
    ELSE
    LET s2 == SetKey(s1, "youtube_api", "YoutubeResource")
        r == sync_content(s2, t, yt, rd)
    IN  IF r.raised # "none"
        THEN WithTemp(Raise(r.session, r.raised, SyncSeen(r), TRUE), "deleted")
        ELSE WithTemp(Redirect(r.session, "index", SyncSeen(r), TRUE), "deleted")

\* reddit_callback that stores the handle before the exchange
reddit_callback_store_first(s, t, args, exchange, yt, rd) ==
    IF ~args.hasCode
    THEN Result(s, 400, <<"Error: Missing code parameter", "">>, "",
                "none", NoSync, FALSE, NoPage)
    ELSE
    LET s1 == SetKey(s, "reddit", "RedditDict") IN
    IF exchange # "ok"
    THEN Result(s1, 400, <<"Reddit login failed: ", "ExchangeError">>, "",
                "none", NoSync, TRUE, NoPage)
    ELSE
    LET r == sync_content(s1, t, yt, rd)
    IN  IF r.raised # "none"
        THEN Result(r.session, 400, <<"Reddit login failed: ", r.raised>>, "",
                    "none", SyncSeen(r), TRUE, NoPage)
        ELSE Redirect(r.session, "index", SyncSeen(r), TRUE)

\* reddit_callback that syncs before it stores the handle
reddit_callback_sync_first(s, t, args, exchange, yt, rd) ==
    IF ~args.hasCode
    THEN Result(s, 400, <<"Error: Missing code parameter", "">>, "",
                "none", NoSync, FALSE, NoPage)
    ELSE IF exchange # "ok"
    THEN Result(s, 400, <<"Reddit login failed: ", "ExchangeError">>, "",
                "none", NoSync, TRUE, NoPage)
    ELSE
    LET r == sync_content(s, t, yt, rd)
    IN  IF r.raised # "none"
        THEN Result(r.session, 400, <<"Reddit login failed: ", r.raised>>, "",
                    "none", SyncSeen(r), TRUE, NoPage)
        ELSE Redirect(SetKey(r.session, "reddit", "RedditDict"), "index",
                      SyncSeen(r), TRUE)

\* GET /reddit-callback; exchange: what reddit.auth.authorize does.
\* Everything after the code test runs inside try/except Exception.
reddit_callback(s, t, args, exchange, yt, rd) ==
    IF ~args.hasCode
    THEN Result(s, 400, <<"Error: Missing code parameter", "">>, "",
                "none", NoSync, FALSE, NoPage)
    ELSE IF exchange # "ok"
    THEN Result(s, 400, <<"Reddit login failed: ", "ExchangeError">>, "",
                "none", NoSync, TRUE, NoPage)
    ELSE
    LET s1 == SetKey(s, "reddit", "RedditDict")
        r == sync_content(s1, t, yt, rd)
    IN  IF r.raised # "none"
        THEN Result(r.session, 400, <<"Reddit login failed: ", r.raised>>, "",
                    "none", SyncSeen(r), TRUE, NoPage)
        ELSE Redirect(r.session, "index", SyncSeen(r), TRUE)

\* GET /logout-youtube
logout_youtube(s) ==
    LET s1 == SetKey(s, "youtube_credentials", None)
        s2 == SetKey(s1, "youtube_api", None)
        s3 == SetKey(s2, "youtube_videos", <<>>)
    IN  Redirect(s3, "index", NoSync, FALSE)

\* logout_reddit that also empties the video list
logout_reddit_wide(s) ==
    LET s1 == SetKey(s, "reddit", None)
        s2 == SetKey(s1, "reddit_posts", <<>>)
        s3 == SetKey(s2, "youtube_videos", <<>>)
    IN  Redirect(s3, "index", NoSync, FALSE)

\* GET /logout-reddit
logout_reddit(s) ==
    LET s1 == SetKey(s, "reddit", None)
        s2 == SetKey(s1, "reddit_posts", <<>>)
    IN  Redirect(s2, "index", NoSync, FALSE)

\* GET /sync
sync(s, t, yt, rd) ==
    LET s1 == SetKey(s, "last_sync_time", 0)
        r == sync_content(s1, t, yt, rd)
    IN  IF r.raised # "none"
        THEN Raise(r.session, r.raised, SyncSeen(r), FALSE)
        ELSE Redirect(r.session, "index", SyncSeen(r), FALSE)

(* --------------------------------------------------------- state machine *)

VARIABLES
    session,    \* the session cookie the browser holds: what the next
                \* request reads
    now,        \* time.time()
    propagate,  \* exceptions leave the application (debug server) instead of
                \* becoming a 500 response whose session is saved
    keepsObjects, \* the session interface hands the stored objects back to
                \* the next request, instead of failing to write them
    last,       \* the last request answered and what it did
    pending,    \* the requests that wait on the network, each with the
                \* session it read when it arrived
    requests,   \* the number of requests the browser has sent
    issued,     \* history: the anti-forgery states the authorization-start
                \* redirects of this session carried
    fetchIn,    \* a fetcher called on its own: what the provider returns
    fetchOut    \* a fetcher called on its own: its result

vars == <<session, now, propagate, keepsObjects, last, pending, requests, issued, fetchIn, fetchOut>>

\* the query of a callback request
CallbackArgs ==
    { [hasCode |-> c, hasState |-> FALSE, state |-> None] : c \in BOOLEAN }
    \cup { [hasCode |-> c, hasState |-> TRUE, state |-> st] :
           c \in BOOLEAN, st \in States }

Outcomes == {"ok", "fail"}

\* what the collaborators of a request did: writing the temporary file,
\* building the flow, exchanging the code, building the client
\* ("none": the request has no such step)
NoEnv == [write |-> "none", flow |-> "none", exchange |-> "none", build |-> "none"]

Env(write, flow, exchange, build) ==
    [write |-> write, flow |-> flow, exchange |-> exchange, build |-> build]

NoFetchIn == [provider |-> "none", call |-> RdIdle]
NoFetchCall == [done |-> FALSE, failed |-> FALSE, raised |-> "none", value |-> <<>>]

\* no authorization-start has redirected yet
NoneIssued == [latest |-> None, superseded |-> {}]

\* the states issued so far, after a redirect that carries state st: st is
\* the latest, the states issued before it and other than it are superseded
Issue(h, st) ==
    [latest |-> st,
     superseded |->
        (h.superseded \cup (IF h.latest = None THEN {} ELSE {h.latest})) \ {st}]

\* before: the session the request read; known: the states issued when it
\* arrived; local: the session the view left;
\* returned: the status the view returned (0: it raised); status, body,
\* location: the response the browser received; saved: what became of the
\* session at the end of the request; at: the time of the response
InitLast ==
    [route |-> "none", args |-> NoArgs, env |-> NoEnv, before |-> EmptySession,
     known |-> NoneIssued, local |-> EmptySession, returned |-> 0, saved |-> "unmodified",
     status |-> 0, body |-> <<"", "">>, location |-> "", raised |-> "none",
     sync |-> NoSync, exchanged |-> FALSE, page |-> NoPage,
     tempfile |-> "none", at |-> 0]

Init ==
    /\ session = EmptySession
    /\ now = T0
    /\ propagate \in BOOLEAN
    /\ keepsObjects \in BOOLEAN
    /\ last = InitLast
    /\ pending = <<>>
    /\ requests = 0
    /\ issued = NoneIssued
    /\ fetchIn = NoFetchIn
    /\ fetchOut = NoFetchCall

\* The sessions a session interface that writes JSON (Flask's signed cookie,
\* the default of app = Flask(__name__) with a secret key) can write at the
\* end of the request; it decides the write only when keepsObjects is FALSE.
\* The serialized credentials are a string; flow.__dict__, the API client
\* and reddit.__dict__ hold objects JSON cannot write.
Serialisable(s) ==
    \A k \in {"oauth_flow", "youtube_api", "reddit"} : Get(s, k) = None

\* session.modified at the end of the request: every session[k] = v the
\* view executed sets it, also one that stores the value the key already
\* had.  init_session assigns only the keys that are absent; sync_content
\* assigns once a stale gate got past the video fetch (the lists, then
\* last_sync_time); youtube_login assigns when it has its authorization
\* URL; youtube_callback assigns after flow.fetch_token returned and
\* reddit_callback after reddit.auth.authorize returned (its sync_content
\* call follows the assignment); logout_youtube, logout_reddit and sync
\* assign on every request; reddit_login never assigns.
Modifies(route, before, res) ==
    IF route \in {"index", "login"}
    THEN \/ init_session(before) # before
         \/ res.sync.gate = "stale" /\ res.sync.raised = "none"
    ELSE IF route = "youtube_login"
    THEN res.raised = "none"
    ELSE IF route = "youtube_callback"
    THEN res.exchanged /\ res.raised # "ExchangeError"
    ELSE IF route = "reddit_callback"
    THEN res.exchanged /\ res.sync # NoSync
    ELSE route \in {"logout_youtube", "logout_reddit", "sync"}

\* The end of a request that read the session `before`, arrived when the
\* states `known` had been issued, and whose view gave res.  An exception
\* that leaves the application saves nothing.  Otherwise a modified session
\* is written back, replacing whatever the browser holds by then.  Whether
\* the objects the views store (flow.__dict__, the API client,
\* reddit.__dict__) can be written is decided by the session interface, not
\* by app.py, which stores them to read them back in later requests: with
\* keepsObjects they are kept as stored; without it the write raises
\* TypeError, nothing is saved, and a response the view returned becomes
\* a 500.
Complete(route, args, env, before, known, res) ==
    LET saved == IF res.raised # "none" /\ propagate THEN "dropped"
                 ELSE IF ~Modifies(route, before, res) THEN "unmodified"
                 ELSE IF keepsObjects \/ Serialisable(res.session) THEN "saved"
                 ELSE "unserialisable"
        broken == saved = "unserialisable" /\ res.raised = "none"
    IN  /\ session' = IF saved = "saved" THEN res.session ELSE session
        /\ last' = [route |-> route, args |-> args, env |-> env,
                    before |-> before, known |-> known, local |-> res.session,
                    returned |-> IF res.raised = "none" THEN res.status ELSE 0,
                    saved |-> saved,
                    status |-> IF broken THEN 500 ELSE res.status,
                    body |-> IF broken THEN <<"Internal Server Error", "">>
                             ELSE res.body,
                    location |-> IF broken THEN "" ELSE res.location,
                    raised |-> res.raised, sync |-> res.sync,
                    exchanged |-> res.exchanged,
                    page |-> IF broken THEN NoPage ELSE res.page,
                    tempfile |-> res.tempfile, at |-> now]
        /\ issued' = IF route = "youtube_login" /\ res.raised = "none" /\ ~broken
                      THEN Issue(issued, res.session["oauth_state"])
                      ELSE issued
        /\ UNCHANGED <<propagate, keepsObjects, fetchIn, fetchOut>>

\* A provider is called only through a client object the session holds:
\* without one, its behaviour is not an input of the request.  The stored
\* reddit.__dict__ is no client object: no call reaches the provider.
RdChoicesFor(reddit) == IF reddit = "RedditObject" THEN RedditBehaviours ELSE {RdIdle}
RdChoices(s) == RdChoicesFor(Get(s, "reddit"))

\* The view of the request waits on the network before it returns:
\* request.execute() in a stale sync with a video client (index, sync),
\* flow.fetch_token once the temporary file and the flow are there
\* (youtube_callback), reddit.auth.authorize (reddit_callback).
WaitsOnNetwork(route, s, args, write, flow, t) ==
    IF route = "index"
    THEN LET s0 == init_session(s)
         IN  /\ IsStale(t, s0["last_sync_time"], s0["sync_interval"])
             /\ Truthy(Get(s0, "youtube_api"))
    ELSE IF route = "sync"
    THEN /\ "sync_interval" \in DOMAIN s
         /\ IsStale(t, 0, s["sync_interval"])
         /\ Truthy(Get(s, "youtube_api"))
    ELSE IF route = "youtube_callback"
    THEN /\ ~MissingParameter(args)
         /\ ~StateMismatch(s, args)
         /\ write = "ok"
         /\ flow = "ok"
    ELSE IF route = "reddit_callback"
    THEN args.hasCode
    ELSE FALSE

\* a request whose view does not wait: it reads the session and answers in
\* one step
Atomic(route, args, env, res) ==
    /\ requests < MaxRequests
    /\ requests' = requests + 1
    /\ Complete(route, args, env, session, issued, res)

Index ==
    /\ ~WaitsOnNetwork("index", session, NoArgs, "none", "none", now)
    /\ \E rd \in RdChoices(session) :
        Atomic("index", NoArgs, NoEnv, index(session, now, YtIdle, rd))
    /\ UNCHANGED <<now, pending>>

Login ==
    /\ Atomic("login", NoArgs, NoEnv, login(session))
    /\ UNCHANGED <<now, pending>>

\* the steps of youtube_login / youtube_callback that can fail, in order:
\* a step is attempted only when the ones before it succeeded
Steps(n) ==
    { e \in [1..n -> Outcomes] : \A i \in 1..n, j \in 1..n :
        (i < j /\ e[i] = "fail") => e[j] = "ok" }

YoutubeLogin ==
    /\ \E st \in States, e \in Steps(2) :
        Atomic("youtube_login", NoArgs, Env(e[1], e[2], "none", "none"),
               youtube_login(session, st, e[1], e[2]))
    /\ UNCHANGED <<now, pending>>

RedditLogin ==
    /\ Atomic("reddit_login", NoArgs, NoEnv, reddit_login(session))
    /\ UNCHANGED <<now, pending>>

\* a video callback that is answered before any call to the provider
YoutubeCallback ==
    /\ \E args \in CallbackArgs, e \in Steps(2) :
        /\ ~WaitsOnNetwork("youtube_callback", session, args, e[1], e[2], now)
        /\ (MissingParameter(args) \/ StateMismatch(session, args))
              => (e[1] = "ok" /\ e[2] = "ok")
        /\ Atomic("youtube_callback", args, Env(e[1], e[2], "ok", "ok"),
                  youtube_callback(session, now, args, e[1], e[2], "ok", "ok",
                                   YtIdle, RdIdle))
    /\ UNCHANGED <<now, pending>>

\* the query of a discussion callback request (its state is never read)
RedditCallbackArgs ==
    { [hasCode |-> c, hasState |-> FALSE, state |-> None] : c \in BOOLEAN }

\* a discussion callback that is answered before any call to the provider
RedditCallback ==
    /\ \E args \in RedditCallbackArgs :
        /\ ~WaitsOnNetwork("reddit_callback", session, args, "none", "none", now)
        /\ Atomic("reddit_callback", args, NoEnv,
                  reddit_callback(session, now, args, "ok", YtIdle, RdIdle))
    /\ UNCHANGED <<now, pending>>

LogoutYoutube ==
    /\ Atomic("logout_youtube", NoArgs, NoEnv, logout_youtube(session))
    /\ UNCHANGED <<now, pending>>

LogoutReddit ==
    /\ Atomic("logout_reddit", NoArgs, NoEnv, logout_reddit(session))
    /\ UNCHANGED <<now, pending>>

Sync ==
    /\ ~WaitsOnNetwork("sync", session, NoArgs, "none", "none", now)
    /\ \E rd \in RdChoices(session) :
        Atomic("sync", NoArgs, NoEnv, sync(session, now, YtIdle, rd))
    /\ UNCHANGED <<now, pending>>

\* the requests whose view may wait on the network
WaitingRequests ==
    { [route |-> r, args |-> NoArgs, write |-> "none", flow |-> "none"] :
        r \in {"index", "sync"} }
    \cup { [route |-> "youtube_callback", args |-> a, write |-> "ok", flow |-> "ok"] :
            a \in CallbackArgs }
    \cup { [route |-> "reddit_callback", args |-> a, write |-> "none", flow |-> "none"] :
            a \in RedditCallbackArgs }

\* A request arrives whose view will wait on the network: it reads the
\* session cookie now.  stage: the call the view waits in, "fetch" for
\* request.execute() and "exchange" for the token exchange of a callback
\* (flow.fetch_token and the build of the client that follows it,
\* reddit.auth.authorize).  clock: the value of time.time() sync_content
\* read before the view went to wait in request.execute() (0: not read yet).
Begin ==
    /\ Len(pending) < MaxPending
    /\ requests < MaxRequests
    /\ requests' = requests + 1
    /\ \E q \in WaitingRequests :
        /\ WaitsOnNetwork(q.route, session, q.args, q.write, q.flow, now)
        /\ pending' = Append(pending,
                [route |-> q.route, args |-> q.args, write |-> q.write,
                 flow |-> q.flow, before |-> session, known |-> issued,
                 stage |-> IF q.route \in {"index", "sync"}
                           THEN "fetch" ELSE "exchange",
                 clock |-> IF q.route \in {"index", "sync"} THEN now ELSE 0])
    /\ UNCHANGED <<session, now, propagate, keepsObjects, last, issued, fetchIn, fetchOut>>

\* pending without its i-th request
Without(seq, i) == SubSeq(seq, 1, i - 1) \o SubSeq(seq, i + 1, Len(seq))

\* the session a callback hands to sync_content after its exchange
StoredByCallback(p) ==
    IF p.route = "youtube_callback"
    THEN SetKey(SetKey(p.before, "youtube_credentials", "creds"),
                "youtube_api", "YoutubeResource")
    ELSE SetKey(p.before, "reddit", "RedditDict")

\* The callback p, whose exchange ended at time t with ex and bd, goes on
\* to a second wait: sync_content reads the clock, finds the gate stale and
\* calls request.execute() on the video client.
WaitsAgain(p, t, ex, bd) ==
    /\ p.stage = "exchange"
    /\ ex = "ok"
    /\ bd = "ok"
    /\ LET s == StoredByCallback(p)
       IN  /\ "last_sync_time" \in DOMAIN s
           /\ "sync_interval" \in DOMAIN s
           /\ IsStale(t, s["last_sync_time"], s["sync_interval"])
           /\ Truthy(Get(s, "youtube_api"))

\* the view of a waiting request p, run on the session p read, with t the
\* time its sync_content reads; ex, bd: what the token exchange and the
\* client build do
ViewOf(p, t, ex, bd, yt, rd) ==
    IF p.route = "index" THEN index(p.before, t, yt, rd)
    ELSE IF p.route = "sync" THEN sync(p.before, t, yt, rd)
    ELSE IF p.route = "youtube_callback"
    THEN youtube_callback(p.before, t, p.args, p.write, p.flow, ex, bd, yt, rd)
    ELSE reddit_callback(p.before, t, p.args, ex, yt, rd)

\* The call a waiting request waits in returns.  A callback whose exchange
\* succeeded and whose sync_content then calls request.execute() reads the
\* clock and waits again.  Otherwise the view finishes on the session it
\* read when it arrived, with the time its sync_content read (the recorded
\* clock after a wait in request.execute(), the present time when
\* sync_content runs after the exchange without a video fetch), and hands
\* that session back.
End ==
    \E i \in 1..Len(pending) :
        LET p == pending[i] IN
        \E ex \in Outcomes, bd \in Outcomes :
            /\ p.stage = "fetch" => (ex = "ok" /\ bd = "ok")
            /\ (p.route = "reddit_callback" \/ ex = "fail") => bd = "ok"
            /\ IF WaitsAgain(p, now, ex, bd)
               THEN /\ pending' = [pending EXCEPT
                                     ![i] = [p EXCEPT !.stage = "fetch",
                                                      !.clock = now]]
                    /\ UNCHANGED <<session, now, propagate, keepsObjects,
                                   last, requests, issued, fetchIn, fetchOut>>
               ELSE /\ \E yt \in (IF p.stage = "fetch"
                                  THEN YoutubeBehaviours ELSE {YtIdle}),
                          rd \in RdChoices(p.before) :
                        Complete(p.route, p.args,
                                 IF p.route = "youtube_callback"
                                 THEN Env(p.write, p.flow, ex, bd)
                                 ELSE IF p.route = "reddit_callback"
                                 THEN Env("none", "none", ex, "none")
                                 ELSE NoEnv,
                                 p.before, p.known,
                                 ViewOf(p, IF p.stage = "fetch" THEN p.clock
                                           ELSE now,
                                        ex, bd, yt, rd))
                    /\ pending' = Without(pending, i)
                    /\ UNCHANGED <<now, requests>>

\* time passes
Tick ==
    \E d \in TickSteps :
        /\ now + d <= T0 + MaxElapsed
        /\ now' = now + d
        /\ UNCHANGED <<session, propagate, keepsObjects, last, pending, requests, issued, fetchIn, fetchOut>>

Next ==
    \/ Index
    \/ Login
    \/ YoutubeLogin
    \/ RedditLogin
    \/ YoutubeCallback
    \/ RedditCallback
    \/ LogoutYoutube
    \/ LogoutReddit
    \/ Sync
    \/ Begin
    \/ End
    \/ Tick

Spec == Init /\ [][Next]_vars

TypeOK ==
    /\ now \in T0..(T0 + MaxElapsed)
    /\ propagate \in BOOLEAN
    /\ last.status \in {0, 200, 302, 400, 500}
    /\ keepsObjects \in BOOLEAN
    /\ Len(pending) <= MaxPending
    /\ requests \in 0..MaxRequests

(* ------------------------------------------- a fetcher called on its own *)

\* the i-th saved item: a submission (it has a title) or a comment
SavedItem(i, submission) ==
    [hasTitle |-> submission, title |-> <<"title", i>>,
     permalink |-> <<"/r/a/", i>>, subreddit |-> "a"]

\* the saved collections of up to MaxSaved items
SavedLists ==
    UNION { { [i \in 1..n |-> SavedItem(i, i \in subs)] : subs \in SUBSET (1..n) } :
            n \in 0..MaxSaved }

\* a fetcher and what its provider does when called
FetchInputs ==
    { [provider |-> "reddit", call |-> [kind |-> "ok", saved |-> l]] :
        l \in SavedLists }
    \cup { [provider |-> "reddit", call |-> [kind |-> "error", saved |-> <<>>]] }
    \cup { [provider |-> "youtube", call |-> yt] : yt \in YoutubeBehaviours }

FetchInit ==
    /\ session = EmptySession
    /\ now = T0
    /\ propagate = FALSE
    /\ keepsObjects = FALSE
    /\ last = InitLast
    /\ pending = <<>>
    /\ requests = 0
    /\ issued = NoneIssued
    /\ fetchIn \in FetchInputs
    /\ fetchOut = NoFetchCall

\* the result of a fetcher call: failed: the provider side failed
FetchResult(failed, r) ==
    [done |-> TRUE, failed |-> failed, raised |-> r.raised, value |-> r.value]

\* fetch_reddit_saved_posts(reddit) with reddit a praw.Reddit client object
RedditFetch ==
    /\ ~fetchOut.done
    /\ fetchIn.provider = "reddit"
    /\ fetchOut' = FetchResult(RedditFails("RedditObject", fetchIn.call),
                               fetch_reddit_saved_posts("RedditObject", fetchIn.call))
    /\ UNCHANGED <<session, now, propagate, keepsObjects, last, pending, requests,
                 issued, fetchIn>>

\* fetch_youtube_saved_videos(youtube_api) with youtube_api an API client
YoutubeFetch ==
    /\ ~fetchOut.done
    /\ fetchIn.provider = "youtube"
    /\ fetchOut' = FetchResult(YoutubeFails(fetchIn.call),
                               fetch_youtube_saved_videos("YoutubeResource", fetchIn.call))
    /\ UNCHANGED <<session, now, propagate, keepsObjects, last, pending, requests,
                 issued, fetchIn>>

FetchNext == RedditFetch \/ YoutubeFetch

FetchSpec == FetchInit /\ [][FetchNext]_vars

(* ---------------------------------------------------------------- claims *)

\* the value under key k as a sequence: empty when the key is absent
Item(s, k) == IF k \in DOMAIN s THEN <<s[k]>> ELSE <<>>

\* the item list under key k, empty when the key is absent
ListOf(s, k) == IF k \in DOMAIN s THEN s[k] ELSE <<>>

\* the request's sync_content call got as far as comparing the times
GateRan(q) == q.sync.gate \in {"fresh", "stale"}

\* the gate of the request was Fresh / Stale by the values it read
GateFresh(q) == GateRan(q) /\ q.sync.gateNow - q.sync.gateLst < q.sync.gateInterval
GateStale(q) == GateRan(q) /\ q.sync.gateNow - q.sync.gateLst >= q.sync.gateInterval

\* the providers whose fetcher the request called
Fetched(q) == { q.sync.fetches[i].provider : i \in 1..Len(q.sync.fetches) }

\* how often the request called the fetcher of provider p
Calls(q, p) ==
    Cardinality({ i \in 1..Len(q.sync.fetches) : q.sync.fetches[i].provider = p })

\* C1: a fetcher call whose provider side failed (HTTP error, transport
\* error, malformed response, missing field) returns the empty sequence and
\* raises nothing to its caller.
C1_FetchersFailSoft ==
    (fetchOut.done /\ fetchOut.failed) =>
        /\ fetchOut.raised = "none"
        /\ fetchOut.value = <<>>

\* a provider is authenticated in the session the request read
Authenticated(q) ==
    Truthy(Get(q.before, "youtube_credentials")) \/ Truthy(Get(q.before, "reddit"))

\* C2: a landing request of a session with a provider authenticated, during
\* which the fetch of one provider failed, is still answered 200 with the
\* page; the fetcher of every provider with a client handle was called, and
\* a provider whose own fetch did not fail shows the list that fetch
\* returned.
C2_NoPartialPageFailure ==
    ( /\ last.route = "index"
      /\ Authenticated(last)
      /\ \E i \in 1..Len(last.sync.fetches) : last.sync.fetches[i].failed )
    => /\ last.status = 200
       /\ last.page.shown
       /\ Truthy(Get(last.before, "youtube_api")) => "youtube" \in Fetched(last)
       /\ Truthy(Get(last.before, "reddit")) => "reddit" \in Fetched(last)
       /\ \A i \in 1..Len(last.sync.fetches) :
            ~last.sync.fetches[i].failed =>
                /\ last.sync.fetches[i].provider = "youtube"
                    => last.page.youtube_videos = last.sync.fetches[i].value
                /\ last.sync.fetches[i].provider = "reddit"
                    => last.page.reddit_posts = last.sync.fetches[i].value

\* C3: a request whose sync gate was Fresh (now - lastSyncTime <
\* syncIntervalSeconds when sync_content compared them) called no fetcher
\* and left both item lists and lastSyncTime as they were in the session it
\* read.
C3_FreshGateNoOp ==
    GateFresh(last) =>
        /\ last.sync.fetches = <<>>
        /\ Item(last.local, "youtube_videos") = Item(last.before, "youtube_videos")
        /\ Item(last.local, "reddit_posts") = Item(last.before, "reddit_posts")
        /\ Item(last.local, "last_sync_time") = Item(last.before, "last_sync_time")
        /\ last.local["last_sync_time"] = last.sync.gateLst

\* a discussion callback stored its client handle and found the gate Fresh
\* after an earlier sync
C3_Witness ==
    /\ last.route = "reddit_callback"
    /\ GateFresh(last)
    /\ Get(last.local, "reddit") = "RedditDict"
    /\ last.before["last_sync_time"] > 0

\* C4: a request whose sync gate was Stale called the fetcher of each provider
\* with a client handle exactly once and of no other provider, stored each
\* result as that provider's list, left the list of a provider without handle
\* alone, and set lastSyncTime to the time of the invocation.
C4_StaleGateRefreshes ==
    GateStale(last) =>
        /\ ("youtube" \in Fetched(last)) <=> Truthy(Get(last.local, "youtube_api"))
        /\ ("reddit" \in Fetched(last)) <=> Truthy(Get(last.local, "reddit"))
        /\ Len(last.sync.fetches) = Cardinality(Fetched(last))
        /\ \A i \in 1..Len(last.sync.fetches) :
            /\ last.sync.fetches[i].provider = "youtube"
                => Item(last.local, "youtube_videos") = <<last.sync.fetches[i].value>>
            /\ last.sync.fetches[i].provider = "reddit"
                => Item(last.local, "reddit_posts") = <<last.sync.fetches[i].value>>
        /\ "youtube" \notin Fetched(last)
            => ListOf(last.local, "youtube_videos") = ListOf(last.before, "youtube_videos")
        /\ "reddit" \notin Fetched(last)
            => ListOf(last.local, "reddit_posts") = ListOf(last.before, "reddit_posts")
        /\ Item(last.local, "last_sync_time") = <<last.sync.gateNow>>

\* a step in which a request is answered
ResponseStep ==
    /\ now' = now
    /\ pending' = pending \/ Len(pending') < Len(pending)

\* C5: a force-sync request calls the fetcher of every provider whose client
\* handle the session holds, whatever the time since the last sync; the
\* landing request it redirects to, which reads the session the force-sync
\* left at the time of the redirect, calls no fetcher.
C5_ForceSyncFetches ==
    [][ /\ last'.route = "sync" =>
            /\ Truthy(Get(last'.before, "youtube_api")) => "youtube" \in Fetched(last')
            /\ Truthy(Get(last'.before, "reddit")) => "reddit" \in Fetched(last')
        /\ ( /\ ResponseStep
             /\ last.route = "sync"
             /\ last.status = 302
             /\ last'.route = "index"
             /\ last'.before = last.local
             /\ last'.sync.gateNow = last.at )
           => last'.sync.fetches = <<>> ]_vars

\* the stored state is absent, or differs from the supplied one
StoredStateDiffers(q) ==
    \/ "oauth_state" \notin DOMAIN q.before
    \/ q.before["oauth_state"] = None
    \/ q.before["oauth_state"] # q.args.state

\* C6: a video callback request carrying code and state, in a session whose
\* stored pendingAuthState is absent or differs from the supplied state, is
\* answered 400 "OAuth state mismatch", performs no token exchange and leaves
\* the video credential, client handle, item list and lastSyncTime unchanged.
C6_StateMismatchRejected ==
    ( /\ last.route = "youtube_callback"
      /\ last.args.hasCode /\ last.args.hasState
      /\ StoredStateDiffers(last) )
    => /\ last.status = 400
       /\ last.body[1] = "Error: OAuth state mismatch"
       /\ ~last.exchanged
       /\ \A k \in {"youtube_credentials", "youtube_api", "youtube_videos",
                    "last_sync_time"} :
            /\ Item(last.local, k) = Item(last.before, k)
            /\ Item(session, k) = Item(last.before, k)

\* a callback carried code and a state into a session that holds another
\* pendingAuthState, stored by an authorization-start
C6_Witness ==
    /\ last.route = "youtube_callback"
    /\ last.args.hasCode /\ last.args.hasState
    /\ "oauth_state" \in DOMAIN last.before
    /\ last.before["oauth_state"] # None
    /\ last.before["oauth_state"] # last.args.state
    /\ last.status = 400

\* C7: a video callback request without code or without state is answered 400
\* "Missing code or state parameter" and leaves the whole session unchanged,
\* also when the state it carries (or lacks) does not match the stored one.
C7_MissingParameterRejected ==
    ( /\ last.route = "youtube_callback"
      /\ ~last.args.hasCode \/ ~last.args.hasState )
    => /\ last.status = 400
       /\ last.body[1] = "Error: Missing code or state parameter"
       /\ ~last.exchanged
       /\ last.local = last.before
       /\ session = last.before

\* a callback without code carried a state the session does not hold: both
\* tests would reject it, the missing-parameter answer was given
C7_Witness ==
    /\ last.route = "youtube_callback"
    /\ ~last.args.hasCode /\ last.args.hasState
    /\ StoredStateDiffers(last)
    /\ last.body[1] = "Error: Missing code or state parameter"

\* C8: logout-youtube empties the video credential, handle and list and leaves
\* the discussion provider's fields as they were; logout-reddit empties the
\* discussion credential, handle and list and leaves the video fields as
\* they were.
C8_LogoutIsolation ==
    /\ last.route = "logout_youtube" =>
        /\ Item(session, "youtube_credentials") = <<None>>
        /\ Item(session, "youtube_api") = <<None>>
        /\ Item(session, "youtube_videos") = << <<>> >>
        /\ \A k \in {"reddit_access_token", "reddit", "reddit_posts"} :
            Item(session, k) = Item(last.before, k)
    /\ last.route = "logout_reddit" =>
        /\ Get(session, "reddit_access_token") = None
        /\ Item(session, "reddit") = <<None>>
        /\ Item(session, "reddit_posts") = << <<>> >>
        /\ \A k \in {"youtube_credentials", "youtube_api", "youtube_videos"} :
            Item(session, k) = Item(last.before, k)

\* logout-reddit ran as the first request that touched the provider fields:
\* it set the discussion fields and the video fields are still absent
C8_Witness ==
    /\ last.route = "logout_reddit"
    /\ last.saved = "saved"
    /\ "reddit" \notin DOMAIN last.before
    /\ "youtube_videos" \notin DOMAIN session

\* C9: pendingAuthState is set in the session only after an
\* authorization-start has redirected; once a video callback has matched it
\* and completed with its redirect, it is no longer set.
C9_StateConsumed ==
    /\ Get(session, "oauth_state") # None => issued.latest # None
    /\ (last.route = "youtube_callback" /\ last.status = 302)
         => /\ Get(last.local, "oauth_state") = None
            /\ Get(session, "oauth_state") = None

\* C10: a landing request is answered by the 302 redirect to the login chooser
\* exactly when neither provider is authenticated, and by the page with both
\* cached lists when one is.
C10_LandingRedirect ==
    last.route = "index" =>
        LET authenticated == Authenticated(last)
        IN  /\ (last.status = 302 /\ last.location = "login") <=> ~authenticated
            /\ authenticated =>
                /\ last.status = 200
                /\ last.page.shown
                /\ last.page.youtube_videos = ListOf(last.local, "youtube_videos")
                /\ last.page.reddit_posts = ListOf(last.local, "reddit_posts")

\* C11: a discussion callback with code whose token exchange throws is
\* answered 400 "Reddit login failed: " followed by the error text, runs no
\* sync and leaves the discussion handle, the discussion list and
\* lastSyncTime unchanged; without code it is answered 400 and leaves the
\* session unchanged.
C11_ExchangeFailureRejected ==
    /\ ( /\ last.route = "reddit_callback"
         /\ last.args.hasCode
         /\ last.env.exchange = "fail" )
       => /\ last.status = 400
          /\ last.body = <<"Reddit login failed: ", "ExchangeError">>
          /\ last.sync.gate = "none"
          /\ last.saved = "unmodified"
          /\ \A k \in {"reddit", "reddit_posts", "last_sync_time"} :
                Item(last.local, k) = Item(last.before, k)
    /\ (last.route = "reddit_callback" /\ ~last.args.hasCode)
       => /\ last.status = 400
          /\ last.saved = "unmodified"
          /\ last.local = last.before

\* the exchange of a discussion callback threw in an initialised session
\* that held no discussion handle
C11_Witness ==
    /\ last.route = "reddit_callback"
    /\ last.args.hasCode
    /\ last.env.exchange = "fail"
    /\ "last_sync_time" \in DOMAIN last.before
    /\ last.before["last_sync_time"] > 0
    /\ Get(last.before, "reddit") = None

\* C12: when the video authorization-start handler or the video callback
\* handler finishes, on whatever exit path, the temporary client-secret file
\* it created no longer exists.
C12_TempFileRemoved ==
    last.route \in {"youtube_login", "youtube_callback"}
        => last.tempfile # "left"

\* C13: no handler fails on a session field that is absent, whichever route
\* receives the first request of the session.
C13_DefaultsOnFirstTouch ==
    last.route # "none" => last.sync.gate # "KeyError"

\* the provider a callback route authenticates, and the key of its list
CallbackProvider(q) == IF q.route = "youtube_callback" THEN "youtube" ELSE "reddit"
CallbackList(q) ==
    IF q.route = "youtube_callback" THEN "youtube_videos" ELSE "reddit_posts"

\* a provider callback whose handler reached its redirect to landing
CallbackSucceeded(q) ==
    q.route \in {"youtube_callback", "reddit_callback"} /\ q.returned = 302

\* C14 as stated: after every successful provider callback the fetcher of
\* the provider just authenticated was called during the callback and its
\* result stored, whatever lastSyncTime was.
C14_SyncOnCallback ==
    CallbackSucceeded(last) =>
        \E i \in 1..Len(last.sync.fetches) :
            /\ last.sync.fetches[i].provider = CallbackProvider(last)
            /\ Item(last.local, CallbackList(last)) = <<last.sync.fetches[i].value>>

\* C14 amended: every provider callback whose handler reached its redirect
\* evaluated the sync gate with the new handle stored; when the gate was
\* Stale the fetcher of the provider just authenticated was called and its
\* result stored in the request's session, when it was Fresh no fetcher was
\* called and both item lists are as the request read them.
C14_GateOnCallback ==
    CallbackSucceeded(last) =>
        /\ GateRan(last)
        /\ GateStale(last) =>
            \E i \in 1..Len(last.sync.fetches) :
                /\ last.sync.fetches[i].provider = CallbackProvider(last)
                /\ Item(last.local, CallbackList(last)) = <<last.sync.fetches[i].value>>
        /\ GateFresh(last) =>
            /\ last.sync.fetches = <<>>
            /\ \A k \in {"youtube_videos", "reddit_posts"} :
                    Item(last.local, k) = Item(last.before, k)

\* a discussion callback reached its redirect with the gate Stale a whole
\* interval after an earlier sync
C14_Witness ==
    /\ last.route = "reddit_callback"
    /\ last.returned = 302
    /\ GateStale(last)
    /\ last.sync.gateLst > 0
    /\ "reddit" \in Fetched(last)

\* the positions of the saved collection the fetcher looks at that hold a
\* submission
SubmissionPositions(saved) ==
    { i \in 1..Len(saved) : i <= 10 /\ saved[i].hasTitle }

\* C15: the successful result of the discussion fetcher is the in-order
\* subsequence of the submissions among the first 10 saved items, each as
\* one record (title, permalink URL, subreddit); it has at most 10 records.
C15_SubmissionsOfFirstTen ==
    (fetchOut.done /\ fetchIn.provider = "reddit" /\ fetchIn.call.kind = "ok") =>
        LET saved == fetchIn.call.saved
            pos == SubmissionPositions(saved)
            v == fetchOut.value
        IN  /\ fetchOut.raised = "none"
            /\ Len(v) = Cardinality(pos)
            /\ Len(v) <= 10
            /\ \A i \in pos :
                v[Cardinality({ j \in pos : j <= i })] =
                    [title |-> saved[i].title,
                     url |-> <<"https://reddit.com", saved[i].permalink>>,
                     subreddit |-> saved[i].subreddit]

\* the fetcher ran on more than 10 saved items, with a comment among the
\* first 10 and a submission after the 10th
C15_Witness ==
    /\ fetchOut.done
    /\ fetchIn.provider = "reddit"
    /\ fetchIn.call.kind = "ok"
    /\ Len(fetchIn.call.saved) > 10
    /\ \E i \in 1..10 : ~fetchIn.call.saved[i].hasTitle
    /\ \E i \in 11..Len(fetchIn.call.saved) : fetchIn.call.saved[i].hasTitle
    /\ Len(fetchOut.value) > 1

\* C16: a discussion callback answered 400 lacked the code or had its token
\* exchange fail, and left the discussion handle as it was; a discussion
\* callback that stored the handle was answered by the redirect to landing.
C16_BadRequestKeepsHandle ==
    last.route = "reddit_callback" =>
        /\ last.status = 400 =>
            /\ ~last.args.hasCode \/ last.env.exchange = "fail"
            /\ Item(last.local, "reddit") = Item(last.before, "reddit")
        /\ Item(last.local, "reddit") # Item(last.before, "reddit") =>
            /\ last.status = 302
            /\ last.location = "index"

\* C17: between requests the video credential and the video client handle
\* are both present or both absent.
C17_CredentialAndHandleAgree ==
    Truthy(Get(session, "youtube_credentials")) <=> Truthy(Get(session, "youtube_api"))

\* the request reached the statement that stores the video credential
CredentialStored(q) ==
    /\ q.route = "youtube_callback"
    /\ q.exchanged
    /\ q.env.exchange = "ok"

LandingAnswered(q) == q.route = "index" /\ q.status \in {200, 302}

\* two landing requests in a row, the second reading the session the first
\* left and reading the clock less than an interval after the first did,
\* called the fetcher of each provider at most once between them
AtMostOneFetchBetween(q1, q2) ==
    ( /\ LandingAnswered(q1)
      /\ LandingAnswered(q2)
      /\ q2.before = q1.local
      /\ q2.sync.gateNow - q1.sync.gateNow < q1.local["sync_interval"] )
    => \A p \in {"youtube", "reddit"} : Calls(q1, p) + Calls(q2, p) <= 1

\* C19 as stated: at the moment a landing request returns its response (the
\* page or the redirect to the login chooser) the gate is Fresh: that time
\* minus lastSyncTime is below the interval; two landing requests less than
\* an interval apart call each provider's fetcher at most once between them.
C19_FreshAtResponse ==
    [][ ResponseStep =>
          /\ LandingAnswered(last') =>
                /\ now' - last'.local["last_sync_time"] < last'.local["sync_interval"]
                /\ now' >= last'.local["last_sync_time"]
          /\ AtMostOneFetchBetween(last, last') ]_vars

\* C19 amended: after a landing request that returned a response the gate is
\* Fresh as of the time at which the request read the clock (that time minus
\* lastSyncTime is below the interval, whatever time the request then waited
\* for its fetch); two landing requests, the second reading the session the
\* first left and reading the clock less than an interval after the first
\* did, call each provider's fetcher at most once between them.
C19_FreshAtGateTime ==
    [][ ResponseStep =>
          /\ LandingAnswered(last') =>
                /\ GateRan(last')
                /\ last'.sync.gateNow - last'.local["last_sync_time"]
                      < last'.local["sync_interval"]
                /\ last'.sync.gateNow >= last'.local["last_sync_time"]
          /\ AtMostOneFetchBetween(last, last') ]_vars

\* a landing request waited a whole interval for its video fetch and
\* returned the page
C19_Witness ==
    /\ last.route = "index"
    /\ last.status = 200
    /\ "youtube" \in Fetched(last)
    /\ now - last.sync.gateNow >= SyncIntervalDefault
    /\ Item(last.local, "last_sync_time") = <<last.sync.gateNow>>

====
